---- MODULE Spec2Model ----
\* dummy-rustwlc: the handle types (handle.rs), the callback registration
\* functions (callback.rs), the input facade (input.rs) and the crate root
\* (lib.rs), driven by a client program that calls the public API.
\*
\* The crate keeps no per-view or per-output data: every getter returns a
\* literal and every mutator has an empty body.  What a run of a client can
\* change is the console (println!), the panic status of the thread
\* (panic!/unimplemented!), and which values the client holds (the run
\* function returned by init).  The model records, next to those, the call
\* the client made last, the call before it when both call the same
\* function, and what every getter returned before and after them.
EXTENDS Integers, Sequences, FiniteSets, TLC

\* ---------------------------------------------------------------- bounds

\* u32 codes the client passes to WlcView::dummy / WlcOutput::dummy: 0..MaxId
MaxId == 1
\* number of console lines kept (run_wlc is not called again after that)
MaxOut == 2

Ids == 0..MaxId

\* ----------------------------------------------------------------- state

VARIABLES
    stdout,           \* the console: the lines println! has written
    panicked,         \* the panic message the thread died with, or NoPanic
    run_fn,           \* what the client holds of init()'s result: None or Some(run_wlc)
    rust_logging_fn,  \* static mut rust_logging_fn (lib.rs)
    wlc,              \* what the crate has handed to the compositor: callbacks, renders, focus
    call,             \* the API call the client made last
    ret,              \* its return value
    pre,              \* what the getters returned just before it
    post,             \* what the getters return now
    pcall,            \* the call before the last one, when it called the same function
    ppre              \* what the getters returned just before that one

vars == <<stdout, panicked, run_fn, rust_logging_fn, wlc, call, ret, pre, post, pcall, ppre>>

NoPanic == "-"

\* ------------------------------------------------------- types (types.rs)

\* bitflags ViewType / ViewState: a value is a set of flags
ViewTypeFlags == {"VIEW_BIT_OVERRIDE_REDIRECT", "VIEW_BIT_UNMANAGED",
                  "VIEW_BIT_SPLASH", "VIEW_BIT_MODAL", "VIEW_BIT_POPUP"}
ViewStateFlags == {"VIEW_MAXIMIZED", "VIEW_FULLSCREEN", "VIEW_RESIZING",
                   "VIEW_MOVING", "VIEW_ACTIVATED"}
\* ViewType::empty(), ViewState::empty()
ViewType_empty == {}
ViewState_empty == {}

Point(x, y) == [x |-> x, y |-> y]
Size(w, h) == [w |-> w, h |-> h]
Geometry(origin, size) == [origin |-> origin, size |-> size]

\* Option and Result values
Some(x) == [tag |-> "Some", val |-> x]
None == [tag |-> "None"]
Ok == [tag |-> "Ok"]
Err(msg) == [tag |-> "Err", msg |-> msg]
\* the value () of a function without a return type
Unit == [tag |-> "()"]

\* ------------------------------------------------------ handles (handle.rs)

\* pub struct WlcView(uintptr_t);  pub struct WlcOutput(uintptr_t);
WlcView(h) == [type |-> "WlcView", handle |-> h]
WlcOutput(h) == [type |-> "WlcOutput", handle |-> h]

\* derive(PartialEq, Eq): field-wise equality of two handles of one type
handle_eq(a, b) == a.handle = b.handle
\* mutant: the order derived as "not greater" instead of "less"
handle_lt_mut(a, b) == a.handle <= b.handle
\* derive(PartialOrd, Ord): lexicographic order on the single field
handle_lt(a, b) == a.handle < b.handle

\* mutant: the conversion builds the output get_output returns, dummy(0)
WlcOutput_from_mut(view) == WlcOutput(0)
\* impl From<WlcView> for WlcOutput
WlcOutput_from(view) == WlcOutput(view.handle)
\* impl From<WlcOutput> for WlcView
WlcView_from(output) == WlcView(output.handle)

\* static ZERO_RES: Size = Size { w: 0, h: 0 };
ZERO_RES == Size(0, 0)

\* `code as uintptr_t`: u32 widened to the pointer-sized integer
as_uintptr_t(code) == code

\* WlcOutput::as_view
as_view(self) == WlcView_from(self)
\* WlcOutput::dummy
WlcOutput_dummy(code) == WlcOutput(as_uintptr_t(code))
\* WlcOutput::get_name
get_name(self) == ""
\* mutant: the output remembers the last set_sleep
get_sleep_mut(self) ==
    /\ call.fn = "set_sleep"
    /\ call.self = self
    /\ call.args.sleep
\* WlcOutput::get_sleep
get_sleep(self) == FALSE
\* WlcOutput::get_resolution
get_resolution(self) == Some(ZERO_RES)
\* mutant: set_output puts the view on every output's stack
get_views_mut(self) == IF call.fn = "set_output" THEN <<call.self>> ELSE << >>
\* WlcOutput::get_views: Vec::new()
get_views(self) == << >>
\* WlcOutput::get_mask
WlcOutput_get_mask(self) == 0
\* WlcOutput::get_mutable_views
get_mutable_views(self) == get_views(self)

\* WlcView::as_output
as_output(self) == WlcOutput_from(self)
\* WlcView::dummy
WlcView_dummy(code) == WlcView(as_uintptr_t(code))
\* WlcView::root
root == WlcView(0)
\* WlcView::is_root
is_root(self) == self.handle = 0
\* mutant: is_window compares against the wrong id
is_window_mut(self) == self.handle > 1
\* WlcView::is_window
is_window(self) == self.handle # 0
\* WlcView::get_output
get_output(self) == WlcOutput_dummy(0)
\* WlcView::get_mask
WlcView_get_mask(self) == 0
\* WlcView::get_geometry
get_geometry(self) == Some(Geometry(Point(0, 0), Size(0, 0)))
\* WlcView::get_visible_geometry
get_visible_geometry(self) == Geometry(Point(0, 0), Size(0, 0))
\* WlcView::get_type
get_type(self) == ViewType_empty
\* mutant: get_state reports the flags of a set_state(.., false) as set
get_state_mut(self) ==
    IF call.fn = "set_state" /\ call.self = self /\ ~call.args.toggle
    THEN call.args.flags
    ELSE ViewState_empty
\* WlcView::get_state
get_state(self) == ViewState_empty
\* mutant: a view without a parent is reported as its own parent
get_parent_mut(self) == self
\* WlcView::get_parent
get_parent(self) == root
\* WlcView::get_title
get_title(self) == ""
\* WlcView::get_class
get_class(self) == ""
\* WlcView::get_app_id
get_app_id(self) == ""

\* the values the client uses as arguments
ViewArgs == {WlcView_dummy(c) : c \in Ids}
OutputArgs == {WlcOutput_dummy(c) : c \in Ids}
MaskArgs == {0, 1}
BoolArgs == {TRUE, FALSE}
GeometryArgs == {Geometry(Point(0, 0), Size(0, 0)), Geometry(Point(1, 0), Size(1, 1))}
SizeArgs == {Size(0, 0), Size(1, 1)}
\* ResizeEdge values: EDGE_NONE and one edge
ResizeEdgeArgs == {{}, {"RESIZE_LEFT"}}
\* no flag (as the crate's tests pass), one flag, two flags at once
ViewTypeArgs == {ViewType_empty, {"VIEW_BIT_UNMANAGED"}, {"VIEW_BIT_MODAL", "VIEW_BIT_POPUP"}}
ViewStateArgs == {ViewState_empty, {"VIEW_ACTIVATED"}, {"VIEW_MAXIMIZED", "VIEW_FULLSCREEN"}}
\* view lists for set_views
ViewListArgs == {<< >>} \cup {<<v>> : v \in ViewArgs}
                 \cup {<<v, w>> : v \in ViewArgs, w \in {WlcView_dummy(MaxId)}}

\* every getter of one view / one output
ViewGetters(self) ==
    [output |-> get_output(self),
     mask |-> WlcView_get_mask(self),
     geometry |-> get_geometry(self),
     visible_geometry |-> get_visible_geometry(self),
     type |-> get_type(self),
     state |-> get_state(self),
     parent |-> get_parent(self),
     title |-> get_title(self),
     class |-> get_class(self),
     app_id |-> get_app_id(self)]
OutputGetters(self) ==
    [name |-> get_name(self),
     sleep |-> get_sleep(self),
     resolution |-> get_resolution(self),
     views |-> get_views(self),
     mutable_views |-> get_mutable_views(self),
     mask |-> WlcOutput_get_mask(self)]
\* what a client sees when it calls every getter on every handle
Observe ==
    [view |-> [c \in Ids |-> ViewGetters(WlcView_dummy(c))],
     output |-> [c \in Ids |-> OutputGetters(WlcOutput_dummy(c))]]

\* ------------------------------------------------------------ bookkeeping

\* the client's own functions, passed as callbacks and log handlers
Handlers == {"A", "B"}
NoCallback == "-"
\* the registration functions of callback.rs, one event kind each
CallbackKinds ==
    {"output_created", "output_destroyed", "output_focus", "output_resolution",
     "output_context_destroyed", "output_context_created", "output_render_pre",
     "output_render_post", "view_created", "view_destroyed", "view_focus",
     "view_move_to_output", "view_request_geometry", "view_request_state",
     "view_request_move", "view_request_resize", "view_render_pre",
     "view_render_post", "keyboard_key", "pointer_button", "pointer_scroll",
     "pointer_motion", "touch", "compositor_ready", "compositor_terminate"}

\* a call of a method on a handle, and of a free or associated function
Method(fn, self, args) == [fn |-> fn, self |-> self, args |-> args]
NoSelf == [type |-> "-", handle |-> 0]
Function(fn, args) == [fn |-> fn, self |-> NoSelf, args |-> args]
NoArgs == [none |-> TRUE]
NoCall == Function("-", NoArgs)
\* what a call that panics "returns"
Diverges == [tag |-> "!"]

\* the thread is alive: a panic unwinds the client, which makes no further call
Running == panicked = NoPanic

\* the client made call c and got r back; of the call before it the model
\* keeps a call of the same function (a repeated call), and nothing else
Called(c, r) ==
    /\ call' = c
    /\ ret' = r
    /\ pcall' = IF call.fn = c.fn THEN call ELSE NoCall
    /\ ppre' = IF call.fn = c.fn THEN pre ELSE Observe
    /\ pre' = Observe
    /\ post' = Observe'

\* a function whose body is empty: `{ }`
EmptyBody == UNCHANGED <<stdout, panicked, run_fn, rust_logging_fn, wlc>>

\* unimplemented!()
Unimplemented ==
    /\ panicked' = "not yet implemented"
    /\ UNCHANGED <<stdout, run_fn, rust_logging_fn, wlc>>

Init ==
    /\ stdout = << >>
    /\ panicked = NoPanic
    /\ run_fn = None
    /\ rust_logging_fn = "default_log_callback"
    /\ wlc = [callbacks |-> [k \in CallbackKinds |-> NoCallback],
              renders |-> [c \in Ids |-> 0],
              focus |-> root]
    /\ call = NoCall
    /\ ret = Unit
    /\ pre = Observe
    /\ post = Observe
    /\ pcall = NoCall
    /\ ppre = Observe

\* ------------------------------------------------- WlcOutput (handle.rs)

WlcOutput_get_user_data(self) ==
    /\ Running
    /\ Unimplemented
    /\ Called(Method("WlcOutput::get_user_data", self, NoArgs), Diverges)

WlcOutput_set_user_data(self, data) ==
    /\ Running
    /\ Unimplemented
    /\ Called(Method("WlcOutput::set_user_data", self, [data |-> data]), Diverges)

schedule_render(self) ==
    /\ Running
    /\ EmptyBody
    /\ Called(Method("schedule_render", self, NoArgs), Unit)

list ==
    /\ Running
    /\ Unimplemented
    /\ Called(Function("WlcOutput::list", NoArgs), Diverges)

focused ==
    /\ Running
    /\ Unimplemented
    /\ Called(Function("WlcOutput::focused", NoArgs), Diverges)

set_sleep(self, sleep) ==
    /\ Running
    /\ EmptyBody
    /\ Called(Method("set_sleep", self, [sleep |-> sleep]), Unit)

set_resolution(self, size, scaling) ==
    /\ Running
    /\ EmptyBody
    /\ Called(Method("set_resolution", self, [size |-> size, scaling |-> scaling]), Unit)

WlcOutput_set_mask(self, mask) ==
    /\ Running
    /\ EmptyBody
    /\ Called(Method("WlcOutput::set_mask", self, [mask |-> mask]), Unit)

\* mutant: set_views accepts the list the output already has
set_views_mut(self, views) ==
    /\ Running
    /\ EmptyBody
    /\ Called(Method("set_views", self, [views |-> views]),
              IF views = get_views(self) THEN Ok ELSE Err("Currently running dummy-rustwlc"))

set_views(self, views) ==
    /\ Running
    /\ EmptyBody
    /\ Called(Method("set_views", self, [views |-> views]),
              Err("Currently running dummy-rustwlc"))

\* WlcOutput::focus(output: Option<WlcOutput>)
WlcOutput_focus(output) ==
    /\ Running
    /\ EmptyBody
    /\ Called(Function("WlcOutput::focus", [output |-> output]), Unit)

\* --------------------------------------------------- WlcView (handle.rs)

WlcView_get_user_data(self) ==
    /\ Running
    /\ Unimplemented
    /\ Called(Method("WlcView::get_user_data", self, NoArgs), Diverges)

WlcView_set_user_data(self, data) ==
    /\ Running
    /\ Unimplemented
    /\ Called(Method("WlcView::set_user_data", self, [data |-> data]), Diverges)

\* mutant: close treats the root view as an error
close_mut(self) ==
    /\ Running
    /\ IF is_root(self) THEN Unimplemented ELSE EmptyBody
    /\ Called(Method("close", self, NoArgs), IF is_root(self) THEN Diverges ELSE Unit)

close(self) ==
    /\ Running
    /\ EmptyBody
    /\ Called(Method("close", self, NoArgs), Unit)

set_output(self, output) ==
    /\ Running
    /\ EmptyBody
    /\ Called(Method("set_output", self, [output |-> output]), Unit)

WlcView_focus(self) ==
    /\ Running
    /\ EmptyBody
    /\ Called(Method("WlcView::focus", self, NoArgs), Unit)

send_to_back(self) ==
    /\ Running
    /\ EmptyBody
    /\ Called(Method("send_to_back", self, NoArgs), Unit)

send_below(self, other) ==
    /\ Running
    /\ EmptyBody
    /\ Called(Method("send_below", self, [other |-> other]), Unit)

bring_above(self, other) ==
    /\ Running
    /\ EmptyBody
    /\ Called(Method("bring_above", self, [other |-> other]), Unit)

bring_to_front(self) ==
    /\ Running
    /\ EmptyBody
    /\ Called(Method("bring_to_front", self, NoArgs), Unit)

WlcView_set_mask(self, mask) ==
    /\ Running
    /\ EmptyBody
    /\ Called(Method("WlcView::set_mask", self, [mask |-> mask]), Unit)

set_geometry(self, edges, geometry) ==
    /\ Running
    /\ EmptyBody
    /\ Called(Method("set_geometry", self, [edges |-> edges, geometry |-> geometry]), Unit)

set_type(self, view_type, toggle) ==
    /\ Running
    /\ EmptyBody
    /\ Called(Method("set_type", self, [flags |-> view_type, toggle |-> toggle]), Unit)

set_state(self, state, toggle) ==
    /\ Running
    /\ EmptyBody
    /\ Called(Method("set_state", self, [flags |-> state, toggle |-> toggle]), Unit)

set_parent(self, parent) ==
    /\ Running
    /\ EmptyBody
    /\ Called(Method("set_parent", self, [parent |-> parent]), Unit)

\* --------------------------------------------------------- crate root (lib.rs)

get_backend_type ==
    /\ Running
    /\ Unimplemented
    /\ Called(Function("get_backend_type", NoArgs), Diverges)

\* init() -> Option<fn() -> ()>: Some(run_wlc)
init ==
    /\ Running
    /\ run_fn' = Some("run_wlc")
    /\ UNCHANGED <<stdout, panicked, rust_logging_fn, wlc>>
    /\ Called(Function("init", NoArgs), Some("run_wlc"))

\* init2() { init() }
init2 ==
    /\ Running
    /\ run_fn' = Some("run_wlc")
    /\ UNCHANGED <<stdout, panicked, rust_logging_fn, wlc>>
    /\ Called(Function("init2", NoArgs), Some("run_wlc"))

\* run_wlc is private: the client reaches it through the value init returned
run_wlc ==
    /\ Running
    /\ run_fn = Some("run_wlc")
    /\ Len(stdout) < MaxOut
    /\ stdout' = Append(stdout, "wlc has been run!")
    /\ UNCHANGED <<panicked, run_fn, rust_logging_fn, wlc>>
    /\ Called(Function("run_wlc", NoArgs), Unit)

terminate ==
    /\ Running
    /\ panicked' = "Called rustwlc::terminate!"
    /\ UNCHANGED <<stdout, run_fn, rust_logging_fn, wlc>>
    /\ Called(Function("terminate", NoArgs), Diverges)

log_set_handler(handler) ==
    /\ Running
    /\ EmptyBody
    /\ Called(Function("log_set_handler", [handler |-> handler]), Unit)

log_set_rust_handler(handler) ==
    /\ Running
    /\ EmptyBody
    /\ Called(Function("log_set_rust_handler", [handler |-> handler]), Unit)

\* log_set_default_handler() { log_set_rust_handler(default_log_callback); }
log_set_default_handler ==
    /\ Running
    /\ EmptyBody
    /\ Called(Function("log_set_default_handler", NoArgs), Unit)

pointer_to_string(pointer) ==
    /\ Running
    /\ Unimplemented
    /\ Called(Function("pointer_to_string", [pointer |-> pointer]), Diverges)

\* ------------------------------------------------------------ input.rs

pointer_get_position ==
    /\ Running
    /\ Unimplemented
    /\ Called(Function("pointer::get_position", NoArgs), Diverges)

pointer_set_position(point) ==
    /\ Running
    /\ EmptyBody
    /\ Called(Function("pointer::set_position", [point |-> point]), Unit)

get_current_keys ==
    /\ Running
    /\ Unimplemented
    /\ Called(Function("keyboard::get_current_keys", NoArgs), Diverges)

get_keysym_for_key(key, modifiers) ==
    /\ Running
    /\ Unimplemented
    /\ Called(Function("keyboard::get_keysym_for_key", [key |-> key, modifiers |-> modifiers]),
              Diverges)

get_utf32_for_key(key, modifiers) ==
    /\ Running
    /\ Unimplemented
    /\ Called(Function("keyboard::get_utf32_for_key", [key |-> key, modifiers |-> modifiers]),
              Diverges)

\* ---------------------------------------------------------- callback.rs

\* every registration function has the same body: `{ }`
Register(kind, callback) ==
    /\ Running
    /\ EmptyBody
    /\ Called(Function(kind, [callback |-> callback]), Unit)

output_created(callback) == Register("output_created", callback)
output_destroyed(callback) == Register("output_destroyed", callback)
output_focus(callback) == Register("output_focus", callback)
output_resolution(callback) == Register("output_resolution", callback)
output_context_destroyed(callback) == Register("output_context_destroyed", callback)
output_context_created(callback) == Register("output_context_created", callback)
output_render_pre(callback) == Register("output_render_pre", callback)
output_render_post(callback) == Register("output_render_post", callback)
view_created(callback) == Register("view_created", callback)
view_destroyed(callback) == Register("view_destroyed", callback)
view_focus(callback) == Register("view_focus", callback)
view_move_to_output(callback) == Register("view_move_to_output", callback)
view_request_geometry(callback) == Register("view_request_geometry", callback)
view_request_state(callback) == Register("view_request_state", callback)
view_request_move(callback) == Register("view_request_move", callback)
view_request_resize(callback) == Register("view_request_resize", callback)
view_render_pre(callback) == Register("view_render_pre", callback)
view_render_post(callback) == Register("view_render_post", callback)
keyboard_key(callback) == Register("keyboard_key", callback)
pointer_button(callback) == Register("pointer_button", callback)
pointer_scroll(callback) == Register("pointer_scroll", callback)
pointer_motion(callback) == Register("pointer_motion", callback)
touch(callback) == Register("touch", callback)
compositor_ready(callback) == Register("compositor_ready", callback)
compositor_terminate(callback) == Register("compositor_terminate", callback)

\* ------------------------------------------- what a handler's bool means

\* the callbacks whose handler returns bool
BoolKinds ==
    {"output_created", "view_created", "keyboard_key", "pointer_button",
     "pointer_scroll", "pointer_motion", "touch"}

\* mutant: true blocks, whatever the callback
ReturnTrue_mut(kind) == "block"
\* what `true` from the handler of a callback asks for, as each registration
\* function documents it: "Return `true` to allow the output to exist",
\* "Return `true` to allow the view to be created", "Return `true` to block
\* the press / click / scroll / motion / touch from the view"
ReturnTrue(kind) ==
    IF kind \in {"output_created", "view_created"} THEN "allow" ELSE "block"

\* ------------------------------------------------- the client's handler

\* a bool a client function returns
Bool(b) == [tag |-> "bool", val |-> b]

\* the client's view_created handler, run on a new view as the compositor
\* would run it (the example of callback::view_created, without its
\* println! and set_mask): view.bring_to_front(); view.focus(); return true;
\* both calls have an empty body
on_view_created(view) ==
    /\ Running
    /\ EmptyBody
    /\ Called(Function("on_view_created", [view |-> view]), Bool(TRUE))

\* ------------------------------------------------------- specifications

\* the client calls a WlcView method
NextView ==
    \/ \E self \in ViewArgs : WlcView_get_user_data(self)
    \/ \E self \in ViewArgs : WlcView_set_user_data(self, "data")
    \/ \E self \in ViewArgs : close(self)
    \/ \E self \in ViewArgs, output \in OutputArgs : set_output(self, output)
    \/ \E self \in ViewArgs : WlcView_focus(self)
    \/ \E self \in ViewArgs : send_to_back(self)
    \/ \E self \in ViewArgs, other \in ViewArgs : send_below(self, other)
    \/ \E self \in ViewArgs, other \in ViewArgs : bring_above(self, other)
    \/ \E self \in ViewArgs : bring_to_front(self)
    \/ \E self \in ViewArgs, mask \in MaskArgs : WlcView_set_mask(self, mask)
    \/ \E self \in ViewArgs, edges \in ResizeEdgeArgs, geometry \in GeometryArgs :
          set_geometry(self, edges, geometry)
    \/ \E self \in ViewArgs, view_type \in ViewTypeArgs, toggle \in BoolArgs :
          set_type(self, view_type, toggle)
    \/ \E self \in ViewArgs, state \in ViewStateArgs, toggle \in BoolArgs :
          set_state(self, state, toggle)
    \/ \E self \in ViewArgs, parent \in ViewArgs : set_parent(self, parent)
    \/ \E view \in ViewArgs : on_view_created(view)

\* the client calls a WlcOutput method or associated function
NextOutput ==
    \/ \E self \in OutputArgs : WlcOutput_get_user_data(self)
    \/ \E self \in OutputArgs : WlcOutput_set_user_data(self, "data")
    \/ \E self \in OutputArgs : schedule_render(self)
    \/ list
    \/ focused
    \/ \E self \in OutputArgs, sleep \in BoolArgs : set_sleep(self, sleep)
    \/ \E self \in OutputArgs, size \in SizeArgs : set_resolution(self, size, 1)
    \/ \E self \in OutputArgs, mask \in MaskArgs : WlcOutput_set_mask(self, mask)
    \/ \E self \in OutputArgs, views \in ViewListArgs : set_views(self, views)
    \/ \E output \in {None} \cup {Some(o) : o \in OutputArgs} : WlcOutput_focus(output)

\* the client calls a function of the crate root or of the input module
NextLib ==
    \/ get_backend_type
    \/ init
    \/ init2
    \/ run_wlc
    \/ terminate
    \/ \E handler \in Handlers : log_set_handler(handler)
    \/ \E handler \in Handlers : log_set_rust_handler(handler)
    \/ log_set_default_handler
    \/ pointer_to_string("ptr")
    \/ pointer_get_position
    \/ \E point \in {Point(0, 0), Point(1, 1)} : pointer_set_position(point)
    \/ get_current_keys
    \/ get_keysym_for_key(1, {})
    \/ get_utf32_for_key(1, {})

\* the client registers a callback
NextCallback ==
    \/ \E callback \in Handlers : output_created(callback)
    \/ \E callback \in Handlers : output_destroyed(callback)
    \/ \E callback \in Handlers : output_focus(callback)
    \/ \E callback \in Handlers : output_resolution(callback)
    \/ \E callback \in Handlers : output_context_destroyed(callback)
    \/ \E callback \in Handlers : output_context_created(callback)
    \/ \E callback \in Handlers : output_render_pre(callback)
    \/ \E callback \in Handlers : output_render_post(callback)
    \/ \E callback \in Handlers : view_created(callback)
    \/ \E callback \in Handlers : view_destroyed(callback)
    \/ \E callback \in Handlers : view_focus(callback)
    \/ \E callback \in Handlers : view_move_to_output(callback)
    \/ \E callback \in Handlers : view_request_geometry(callback)
    \/ \E callback \in Handlers : view_request_state(callback)
    \/ \E callback \in Handlers : view_request_move(callback)
    \/ \E callback \in Handlers : view_request_resize(callback)
    \/ \E callback \in Handlers : view_render_pre(callback)
    \/ \E callback \in Handlers : view_render_post(callback)
    \/ \E callback \in Handlers : keyboard_key(callback)
    \/ \E callback \in Handlers : pointer_button(callback)
    \/ \E callback \in Handlers : pointer_scroll(callback)
    \/ \E callback \in Handlers : pointer_motion(callback)
    \/ \E callback \in Handlers : touch(callback)
    \/ \E callback \in Handlers : compositor_ready(callback)
    \/ \E callback \in Handlers : compositor_terminate(callback)

\* a client that calls any function of the crate, in any order
Next == NextView \/ NextOutput \/ NextLib \/ NextCallback

Spec == Init /\ [][Next]_vars

\* ----------------------------------------------------------- properties

\* the view and output handles a call was made on or was given
ViewsOf(c) ==
    (IF c.self.type = "WlcView" THEN {c.self} ELSE {})
    \cup (IF c.fn \in {"send_below", "bring_above"} THEN {c.args.other} ELSE {})
    \cup (IF c.fn = "set_parent" THEN {c.args.parent} ELSE {})
OutputsOf(c) ==
    (IF c.self.type = "WlcOutput" THEN {c.self} ELSE {})
    \cup (IF c.fn = "set_output" THEN {c.args.output} ELSE {})
\* the handles of the last call and of the one it repeats
ViewsInUse == ViewsOf(call) \cup ViewsOf(pcall)
OutputsInUse == OutputsOf(call) \cup OutputsOf(pcall)

\* C1: root() is the root and no window; a view handle made by dummy(n) with
\* n # 0 is a window and not the root; is_window is the negation of is_root
\* on every view handle the client uses.
C1_RootAndWindow ==
    /\ is_root(root) /\ ~is_window(root)
    /\ \A n \in Ids : WlcView_dummy(n) \in ViewsInUse =>
          /\ n # 0 => ~is_root(WlcView_dummy(n)) /\ is_window(WlcView_dummy(n))
          /\ n = 0 => is_root(WlcView_dummy(n)) /\ ~is_window(WlcView_dummy(n))
    /\ \A v \in ViewsInUse : is_window(v) = ~is_root(v)

\* C1 witness: a call on a window that was given the root view
C1_Witness ==
    /\ call.fn = "set_parent"
    /\ call.self = WlcView_dummy(1)
    /\ call.args.parent = root

\* C2: view -> output -> view and output -> view -> output give back the
\* handle they started from; as_view/as_output agree with the From
\* conversions and keep the id.
C2_RoundTrip ==
    /\ \A v \in ViewsInUse :
          /\ as_view(as_output(v)) = v
          /\ as_output(v) = WlcOutput_from(v)
          /\ as_output(v).type = "WlcOutput"
          /\ as_output(v).handle = v.handle
    /\ \A o \in OutputsInUse :
          /\ as_output(as_view(o)) = o
          /\ as_view(o) = WlcView_from(o)
          /\ as_view(o).type = "WlcView"
          /\ as_view(o).handle = o.handle

\* C2 witness: a call that holds a view and an output with non-zero ids
C2_Witness ==
    /\ call.fn = "set_output"
    /\ call.self.handle # 0
    /\ call.args.output.handle # 0

\* C3: two handles made by dummy are equal iff their codes are equal and
\* ordered as their codes are, for views and for outputs; root() equals
\* dummy(0), and dummy(0) < dummy(1).
C3_EqOrd ==
    /\ \A a \in Ids, b \in Ids :
          /\ (WlcView_dummy(a) \in ViewsInUse /\ WlcView_dummy(b) \in ViewsInUse) =>
                /\ handle_eq(WlcView_dummy(a), WlcView_dummy(b)) = (a = b)
                /\ handle_lt(WlcView_dummy(a), WlcView_dummy(b)) = (a < b)
          /\ (WlcOutput_dummy(a) \in OutputsInUse /\ WlcOutput_dummy(b) \in OutputsInUse) =>
                /\ handle_eq(WlcOutput_dummy(a), WlcOutput_dummy(b)) = (a = b)
                /\ handle_lt(WlcOutput_dummy(a), WlcOutput_dummy(b)) = (a < b)
    /\ handle_eq(root, WlcView_dummy(0))
    /\ (WlcView_dummy(1) \in ViewsInUse => handle_lt(WlcView_dummy(0), WlcView_dummy(1)))
    /\ (WlcOutput_dummy(1) \in OutputsInUse =>
          handle_lt(WlcOutput_dummy(0), WlcOutput_dummy(1)))

\* C3 witness: two calls in a row on two different outputs
C3_Witness ==
    /\ call.self.type = "WlcOutput" /\ pcall.self.type = "WlcOutput"
    /\ pcall.self = WlcOutput_dummy(0) /\ call.self = WlcOutput_dummy(1)

\* C4: set_views returns an Err that carries a reason, whatever list it is
\* given (one that differs from the output's views in particular), and the
\* output's get_views() is the same after the call as before it.
C4_SetViewsFails ==
    call.fn = "set_views" =>
        /\ ret.tag = "Err"
        /\ ret.msg # ""
        /\ post.output[call.self.handle].views = pre.output[call.self.handle].views
        /\ post = pre

\* C4 witness: set_views with a list that is not the output's current one
C4_Witness ==
    /\ call.fn = "set_views"
    /\ call.args.views # pre.output[call.self.handle].views
    /\ call.self.handle # 0

\* C5: one slot per event kind, last writer wins: once a handler and then
\* another one have been registered for the same event kind, the slot of
\* that kind holds the second, which is the one an event of the kind invokes.
C5_LastWriterWins ==
    (/\ call.fn \in CallbackKinds
     /\ pcall.fn = call.fn
     /\ pcall.args.callback # call.args.callback)
    => wlc.callbacks[call.fn] = call.args.callback

\* the last two calls toggled the same flags of the same view on and off
ToggledOnThenOff(fn) ==
    /\ call.fn = fn /\ pcall.fn = fn
    /\ pcall.self = call.self
    /\ pcall.args.flags = call.args.flags
    /\ pcall.args.toggle /\ ~call.args.toggle

\* C6: set_state(f, true) followed by set_state(f, false) on a view whose
\* state did not contain f leaves get_state() as it was before the two
\* calls, and every other getter of every handle too.
C6_ToggleRoundTrip ==
    (/\ ToggledOnThenOff("set_state")
     /\ call.args.flags \cap ppre.view[call.self.handle].state = {})
    => /\ post.view[call.self.handle].state = ppre.view[call.self.handle].state
       /\ post = ppre

\* C6 witness: a flag of a window was toggled on and then off
C6_Witness ==
    /\ ToggledOnThenOff("set_state")
    /\ call.args.flags = {"VIEW_ACTIVATED"}
    /\ call.self.handle # 0
    /\ call.args.flags \cap ppre.view[call.self.handle].state = {}

\* C7: after set_state(f, true) get_state() contains f and after
\* set_state(f, false) it does not; the same for set_type and get_type; the
\* other flags keep their value.
C7_ToggleObservable ==
    /\ call.fn = "set_state" =>
          LET before == pre.view[call.self.handle].state
              after == post.view[call.self.handle].state
          IN  /\ call.args.toggle => call.args.flags \subseteq after
              /\ ~call.args.toggle => call.args.flags \cap after = {}
              /\ after \ call.args.flags = before \ call.args.flags
    /\ call.fn = "set_type" =>
          LET before == pre.view[call.self.handle].type
              after == post.view[call.self.handle].type
          IN  /\ call.args.toggle => call.args.flags \subseteq after
              /\ ~call.args.toggle => call.args.flags \cap after = {}
              /\ after \ call.args.flags = before \ call.args.flags

\* C8: schedule_render called twice in a row on one output leaves exactly
\* one render scheduled for that output.
C8_RenderOnce ==
    (/\ call.fn = "schedule_render"
     /\ pcall.fn = "schedule_render"
     /\ pcall.self = call.self)
    => wlc.renders[call.self.handle] = 1

\* C9: close() on the root view returns, and leaves every getter of every
\* handle, the console, the panic status and what the crate holds as they
\* were.
C9_CloseRootNoOp ==
    [][close(root) =>
          /\ ret' = Unit
          /\ post' = pre'
          /\ post' = post
          /\ UNCHANGED <<stdout, panicked, run_fn, rust_logging_fn, wlc>>]_vars

\* C9 witness: close() was called on the root view
C9_Witness ==
    /\ call.fn = "close"
    /\ is_root(call.self)
    /\ call.self = root

\* C10: the run action does not return before terminate() has been called.
C10_RunBlocksUntilTerminate ==
    (call.fn = "run_wlc" /\ ret = Unit) => panicked = "Called rustwlc::terminate!"

\* C11: on every dummy handle the getters return the default of their type:
\* empty strings, empty flag sets, the zero geometry, the root view as
\* parent, output 0 as output, no views, mask 0.  (A getter has no panic in
\* its body: it is a value, and the thread's panic status is not its to set.)
C11_GettersDefault ==
    /\ \A c \in Ids :
          WlcView_dummy(c) \in ViewsInUse =>
             LET g == post.view[c]
             IN  /\ g.title = "" /\ g.class = "" /\ g.app_id = ""
                 /\ g.type = {} /\ g.state = {}
                 /\ g.geometry = Some(Geometry(Point(0, 0), Size(0, 0)))
                 /\ g.visible_geometry = Geometry(Point(0, 0), Size(0, 0))
                 /\ g.parent = root /\ is_root(g.parent)
                 /\ g.output = WlcOutput_dummy(0)
                 /\ g.mask = 0
    /\ \A c \in Ids :
          WlcOutput_dummy(c) \in OutputsInUse =>
             LET g == post.output[c]
             IN  /\ g.name = ""
                 /\ g.views = << >> /\ g.mutable_views = << >>
                 /\ g.mask = 0

\* C11 witness: the getters were read after a call on a dummy window (the
\* calls of the crate's own test)
C11_Witness ==
    /\ call.fn = "set_parent"
    /\ call.self = WlcView_dummy(1)
    /\ call.args.parent = post.view[1].parent
    /\ panicked = NoPanic

\* C12: once init() has returned the run action, WlcOutput::list() and
\* WlcOutput::focused() return a value and do not abort the program.
C12_EnumerationAfterInit ==
    (/\ run_fn = Some("run_wlc")
     /\ call.fn \in {"WlcOutput::list", "WlcOutput::focused"})
    => /\ panicked = NoPanic
       /\ ret # Diverges

\* C13: after the client's view_created handler (bring_to_front(), focus(),
\* return true) has run on a new window, the window is the first of
\* get_views() of its output and holds the focus.
C13_CreatedViewInFront ==
    (/\ call.fn = "on_view_created"
     /\ ret = Bool(TRUE)
     /\ is_window(call.args.view))
    => LET view == call.args.view
           views == post.output[post.view[view.handle].output.handle].views
       IN  /\ Len(views) > 0
           /\ views[1] = view
           /\ wlc.focus = view

\* the view is one of the views of the stack
InStack(view, views) == \E i \in 1..Len(views) : views[i] = view

\* C14: whatever calls have been made, each view is in the get_views()
\* stack of at most one output, and after v.set_output(o2) with o2 another
\* output than v's previous one, v is not in the previous output's stack.
C14_OneStack ==
    /\ \A c \in Ids :
          Cardinality({o \in Ids :
              InStack(WlcView_dummy(c), post.output[o].views)}) <= 1
    /\ (/\ call.fn = "set_output"
        /\ call.args.output # pre.view[call.self.handle].output)
       => ~InStack(call.self,
                   post.output[pre.view[call.self.handle].output.handle].views)

\* a view was moved twice in a row, the second time to an output other than
\* the one get_output() reported
C14_Witness ==
    /\ call.fn = "set_output"
    /\ pcall.fn = "set_output"
    /\ pcall.self = call.self
    /\ call.args.output = WlcOutput_dummy(1)
    /\ pre.view[call.self.handle].output = WlcOutput_dummy(0)
    /\ panicked = NoPanic

\* C15: the log sink is one slot and the last writer wins: after
\* log_set_rust_handler(f) the slot rust_logging_fn holds f, and after
\* log_set_default_handler() it holds default_log_callback, whose line
\* carries the tag and the text of the message.
C15_LastSinkInstalled ==
    /\ call.fn = "log_set_rust_handler" => rust_logging_fn = call.args.handler
    /\ call.fn = "log_set_default_handler" =>
          rust_logging_fn = "default_log_callback"

Mutators ==
    {"close", "set_output", "WlcView::focus", "send_to_back", "send_below",
     "bring_above", "bring_to_front", "WlcView::set_mask", "set_geometry",
     "set_type", "set_state", "set_parent",
     "set_sleep", "set_resolution", "WlcOutput::set_mask", "set_views",
     "schedule_render", "WlcOutput::focus",
     "log_set_handler", "log_set_rust_handler", "log_set_default_handler"}

====
